---- MODULE Spec2Model ----
(***************************************************************************)
(* Model of sms-backup.py: phone normalisation, group resolution, alias    *)
(* mapping, query planning, row classification, rendering and the          *)
(* resource handling of main().                                            *)
(*                                                                         *)
(* Strings are sequences of one-character strings, so that strip, the     *)
(* regular expressions, the slices and the padding are computed character *)
(* by character as the code computes them.  Python's None for a text       *)
(* column and for a list result is the empty sequence: the code only ever  *)
(* tests these values for truthiness (`not row['address']`, `if gids:`).   *)
(***************************************************************************)
EXTENDS Integers, Sequences, FiniteSets, TLC

VARIABLES
    pc,            \* position of the run / of the function under study
    phone,         \* a phone string given to format_phone / query_group_ids
    phone2,        \* a second phone string (query_group_ids)
    result,        \* what the function under study returned for phone
    result2,       \* what it returned for phone2
    args_aliases,  \* args.aliases: list of "number=name" strings
    args_numbers,  \* args.numbers: list of phone strings
    args_format,   \* args.format: "human" | "csv" | "json"
    args_header,   \* args.header
    orig,          \* what ORIG_DB names: "missing" | "garbage" | "db"
    group_member,  \* table group_member: sequence of [address, group_id]
    message,       \* table message: set of rows
    COPY_DB,       \* the global COPY_DB: "None" or the name of the copy
    tmpfiles,      \* temporary files that exist on disk
    conns,         \* sqlite connections opened and not closed
    aliases,       \* main's `aliases`: function group_id -> name
    query,         \* main's (query, params): [filtered, params]
    rows,          \* the rows the message cursor yields, in order
    idx,           \* how many of them the loop has consumed
    messages,      \* main's `messages`
    out,           \* what was written to the output, record by record
    log,           \* storage and output operations performed, in order
    exit_status    \* "running" | "0" | "1" | "2" | "exception"

fnVars == <<phone, phone2, result, result2>>
argVars == <<args_aliases, args_numbers, args_format, args_header>>
storeVars == <<orig, group_member, message>>
resVars == <<COPY_DB, tmpfiles, conns>>
runVars == <<aliases, query, rows, idx, messages, out, log, exit_status>>
vars == <<pc, fnVars, argVars, storeVars, resVars, runVars>>

(***************************************************************************)
(* Bounds of the model.                                                    *)
(***************************************************************************)
MaxPhoneLen == 12   \* longest phone string given to format_phone
MaxMembers == 2     \* rows of the group_member table
MaxGid == 2         \* group ids are 1..MaxGid
MaxMsgs == 2        \* messages given to msgs_human
MaxAliases == 2     \* --alias arguments
MaxNumbers == 2     \* --phone arguments given to build_msg_query
MaxRows == 3        \* rows the message cursor yields to the row loop
MaxQueryRows == 2   \* rows of the message table the query selects from
MaxRunNumbers == 1  \* --phone arguments of a whole run
MaxRunRows == 1     \* rows of the message table in a whole run

(***************************************************************************)
(* Characters and strings.                                                 *)
(***************************************************************************)
Digits == {"0", "1", "2", "3", "4", "5", "6", "7", "8", "9"}

Max(a, b) == IF a >= b THEN a ELSE b

\* All sequences over S of length at most n.
SeqsUpTo(S, n) == UNION {[1..k -> S] : k \in 0..n}

\* The elements of a sequence.
Range(s) == {s[i] : i \in DOMAIN s}

\* n copies of the character c.
Repeat(c, n) == [i \in 1..n |-> c]

\* Python's s[-n:]: the last n characters, or all of s when it is shorter.
LastN(s, n) == SubSeq(s, Max(1, Len(s) - n + 1), Len(s))

EndsWith(s, suf) ==
    /\ Len(suf) <= Len(s)
    /\ SubSeq(s, Len(s) - Len(suf) + 1, Len(s)) = suf

\* The concatenation of a sequence of strings.
RECURSIVE Concat(_)
Concat(ss) == IF ss = <<>> THEN <<>> ELSE Head(ss) \o Concat(Tail(ss))

\* sep.join(ss)
RECURSIVE Join(_, _)
Join(ss, sep) ==
    IF ss = <<>> THEN <<>>
    ELSE IF Len(ss) = 1 THEN Head(ss)
    ELSE Head(ss) \o sep \o Join(Tail(ss), sep)

\* The largest element of a non-empty set of numbers: Python's max().
MaxOf(S) == CHOOSE m \in S : \A x \in S : x <= m

(***************************************************************************)
(* PhoneNormalizer: strip, format_phone, valid_phone.                      *)
(***************************************************************************)
\* strip(phone): re.sub('[^\d]', '', phone).
strip(s) == SelectSeq(s, LAMBDA c : c \in Digits)

\* "(%s) %s-%s" % (ph[-10:-7], ph[-7:-4], ph[-4:]) for Len(ph) >= 10.
UsFormat(ph) ==
    LET n == Len(ph)
    IN  <<"(">> \o SubSeq(ph, n - 9, n - 7) \o <<")", " ">>
        \o SubSeq(ph, n - 6, n - 4) \o <<"-">> \o SubSeq(ph, n - 3, n)

\* A slip: 11 digits are formatted whatever the leading digit is.
format_phone_any11(p) ==
    LET ph == strip(p)
    IN  IF Len(ph) < 10 THEN ph
        ELSE IF Len(ph) = 10 THEN UsFormat(ph)
        ELSE IF Len(ph) = 11 THEN UsFormat(ph)
        ELSE p

\* format_phone(phone).  No branch assigns `phone` in the remaining case, so
\* the string is returned as it was given, punctuation included.
format_phone(p) ==
    LET ph == strip(p)
    IN  IF Len(ph) < 10 THEN ph
        ELSE IF Len(ph) = 10 THEN UsFormat(ph)
        ELSE IF Len(ph) = 11 /\ ph[1] = "1" THEN UsFormat(ph)
        ELSE p

\* valid_phone(phone): at least 5 digits after stripping.
valid_phone(p) == Len(strip(p)) >= 5

(***************************************************************************)
(* String constants of the program.                                        *)
(***************************************************************************)
S_Date == <<"D", "a", "t", "e">>
S_From == <<"F", "r", "o", "m">>
S_To == <<"T", "o">>
S_Text == <<"T", "e", "x", "t">>
S_Sep == <<" ", "|", " ">>
S_Me == <<"M", "e">>
S_May == <<"M", "a", "y">>
S_August == <<"A", "u", "g", "u", "s", "t">>
Unbound == <<"UnboundLocalError">>

(***************************************************************************)
(* Validation of the arguments: validate_aliases, validate_numbers,        *)
(* validate.                                                               *)
(***************************************************************************)
\* Index of the first '=' of a, or 0 when it has none.
FirstEq(a) ==
    IF \E i \in DOMAIN a : a[i] = "="
    THEN CHOOSE i \in DOMAIN a : a[i] = "=" /\ \A j \in 1..(i - 1) : a[j] # "="
    ELSE 0

\* re.search('^([^=]+)=[^=]+$', a): [^=]+ stops at the first '=', which must
\* not be the first character, and what follows must be non-empty and free
\* of '='.
AliasMatch(a) ==
    LET k == FirstEq(a)
    IN  /\ k > 1
        /\ k < Len(a)
        /\ \A j \in (k + 1)..Len(a) : a[j] # "="

\* m.group(1) and m.group(2) of a matching alias.
AliasNumber(a) == SubSeq(a, 1, FirstEq(a) - 1)
AliasName(a) == SubSeq(a, FirstEq(a) + 1, Len(a))

\* validate_aliases(aliases) raises ValueError.
validate_aliases_raises(als) ==
    \E i \in DOMAIN als :
        \/ ~AliasMatch(als[i])
        \/ ~valid_phone(AliasNumber(als[i]))

\* validate_numbers(numbers) raises ValueError.
validate_numbers_raises(nums) ==
    \E i \in DOMAIN nums : ~valid_phone(nums[i])

\* A slip: the numbers of --phone are not validated.
validate_raises_aliases_only(als, nums) == validate_aliases_raises(als)

\* validate(args) raises.
validate_raises(als, nums) ==
    validate_aliases_raises(als) \/ validate_numbers_raises(nums)

(***************************************************************************)
(* GroupResolver: query_group_ids.                                         *)
(***************************************************************************)
\* STRIP(address) like '%' || suf, suf being digits only.
LikeSuffix(address, suf) == EndsWith(strip(address), suf)

\* group_id of every row of gm whose address matches, in table order.
SelectGroupIds(gm, suf) ==
    LET hit == SelectSeq(gm, LAMBDA r : LikeSuffix(r.address, suf))
    IN  [i \in 1..Len(hit) |-> hit[i].group_id]

\* A slip: the whole stripped number is the pattern, not its last 10 digits.
query_group_ids_whole(gm, p) == SelectGroupIds(gm, strip(p))

\* query_group_ids(phone) on the group_member table gm; None is <<>>.
query_group_ids(gm, p) == SelectGroupIds(gm, LastN(strip(p), 10))

(***************************************************************************)
(* AliasResolver: alias_map.                                               *)
(***************************************************************************)
\* A slip: only the first group of a match is registered.
RegisterFirst(acc, gids, name) ==
    [g \in (DOMAIN acc) \cup {gids[1]} |->
        IF g = gids[1] THEN name ELSE acc[g]]

\* result[gid] = name for every gid of the non-empty list gids.
Register(acc, gids, name) ==
    [g \in (DOMAIN acc) \cup Range(gids) |->
        IF g \in Range(gids) THEN name ELSE acc[g]]

\* The loop body of alias_map for one alias.
AliasStep(gm, acc, a) ==
    LET gids == query_group_ids(gm, AliasNumber(a))
    IN  IF gids # <<>> THEN Register(acc, gids, AliasName(a)) ELSE acc

RECURSIVE AliasFold(_, _, _)
AliasFold(gm, als, acc) ==
    IF als = <<>> THEN acc
    ELSE AliasFold(gm, Tail(als), AliasStep(gm, acc, Head(als)))

\* alias_map(aliases): dictionary group_id -> name.
alias_map(gm, als) == AliasFold(gm, als, <<>>)

(***************************************************************************)
(* QueryPlanner: build_msg_query and the execution of its query.           *)
(***************************************************************************)
\* group_ids after the loop over numbers: the lists found, concatenated.
CollectGroupIds(gm, nums) ==
    Concat([i \in 1..Len(nums) |-> query_group_ids(gm, nums[i])])

\* A slip: no fallback to the unfiltered query.
build_msg_query_nofallback(gm, nums) ==
    [filtered |-> nums # <<>>, params |-> CollectGroupIds(gm, nums)]

\* build_msg_query(numbers): filtered with its parameters, or unfiltered.
build_msg_query(gm, nums) ==
    LET group_ids == CollectGroupIds(gm, nums)
    IN  IF group_ids # <<>>
        THEN [filtered |-> TRUE, params |-> group_ids]
        ELSE [filtered |-> FALSE, params |-> <<>>]

\* order by rowid
RECURSIVE SortByRowid(_)
SortByRowid(S) ==
    IF S = {} THEN <<>>
    ELSE LET r == CHOOSE x \in S : \A y \in S : x.rowid <= y.rowid
         IN  <<r>> \o SortByRowid(S \ {r})

\* cur.execute(query, params) on the message table: the rows of the cursor.
ExecuteQuery(q, msgTable) ==
    SortByRowid({r \in msgTable :
                    q.filtered => r.group_id \in Range(q.params)})

(***************************************************************************)
(* MessageClassifier: skip_row, convert_date, convert_address.             *)
(***************************************************************************)
\* A slip: rows without text are kept.
skip_row_keeps_empty_text(row) ==
    \/ row.flags \notin {2, 3}
    \/ row.address = <<>>

\* skip_row(row)
skip_row(row) ==
    \/ row.flags \notin {2, 3}
    \/ row.address = <<>>
    \/ row.text = <<>>

\* int(unix_date) raises for a NULL date.
convert_date_raises(d) == d = "NULL"

\* convert_date(unix_date, "%B"): the month name of the local date.
convert_date(d) ==
    CASE d = "12000000" -> S_May
      [] d = "20000000" -> S_August

\* A slip: from and to exchanged.
convert_address_swapped(row, me, amap) ==
    LET address == format_phone(row.address)
        other == IF amap # <<>> /\ row.group_id \in DOMAIN amap
                 THEN amap[row.group_id] ELSE address
    IN  CASE row.flags = 2 -> <<me, other>>
          [] row.flags = 3 -> <<other, me>>
          [] OTHER -> <<Unbound, Unbound>>

\* convert_address(row, me, alias_map): (from_addr, to_addr).  On a flag
\* other than 2 and 3 neither name is bound.
convert_address(row, me, amap) ==
    LET address == format_phone(row.address)
        other == IF amap # <<>> /\ row.group_id \in DOMAIN amap
                 THEN amap[row.group_id] ELSE address
    IN  CASE row.flags = 2 -> <<other, me>>
          [] row.flags = 3 -> <<me, other>>
          [] OTHER -> <<Unbound, Unbound>>

\* The dictionary main appends for a row that is not skipped.
MakeMsg(row, me, amap) ==
    LET ft == convert_address(row, me, amap)
    IN  [date |-> convert_date(row.date), from |-> ft[1], to |-> ft[2],
         text |-> row.text]

(***************************************************************************)
(* Renderer: msgs_human, msgs_csv, msgs_json.                              *)
(***************************************************************************)
\* "{0:{1}}".format(s, w): left-justified in w columns, never truncated.
PadRight(s, w) == s \o Repeat(" ", Max(0, w - Len(s)))

\* "{0:>{1}}".format(s, w): right-justified in w columns, never truncated.
PadLeft(s, w) == Repeat(" ", Max(0, w - Len(s))) \o s

\* from_width, to_width and date_width of msgs_human, for non-empty msgs.
from_width(msgs) == Max(MaxOf({Len(msgs[i].from) : i \in DOMAIN msgs}), Len(S_From))
to_width(msgs) == Max(MaxOf({Len(msgs[i].to) : i \in DOMAIN msgs}), Len(S_To))
date_width(msgs) == Max(MaxOf({Len(msgs[i].date) : i \in DOMAIN msgs}), Len(S_Date))

\* hrow of msgs_human.
HumanHeader(dw, fw, tw) ==
    PadRight(S_Date, dw) \o S_Sep \o PadRight(S_From, fw) \o S_Sep
    \o PadRight(S_To, tw) \o S_Sep \o S_Text

\* msg of msgs_human for the message m.
HumanRow(m, dw, fw, tw) ==
    PadRight(m.date, dw) \o S_Sep \o PadLeft(m.from, fw) \o S_Sep
    \o PadLeft(m.to, tw) \o S_Sep \o m.text

\* A slip: the widths ignore the column headers.
HumanLinesNoHeaderWidth(msgs, header) ==
    LET fw == MaxOf({Len(msgs[i].from) : i \in DOMAIN msgs})
        tw == MaxOf({Len(msgs[i].to) : i \in DOMAIN msgs})
        dw == MaxOf({Len(msgs[i].date) : i \in DOMAIN msgs})
    IN  (IF header THEN <<HumanHeader(dw, fw, tw)>> ELSE <<>>)
        \o [i \in 1..Len(msgs) |-> HumanRow(msgs[i], dw, fw, tw)]
        \o << <<>> >>

\* The list `msgs` of msgs_human before it is joined, for non-empty messages.
HumanLines(msgs, header) ==
    LET fw == from_width(msgs)
        tw == to_width(msgs)
        dw == date_width(msgs)
    IN  (IF header THEN <<HumanHeader(dw, fw, tw)>> ELSE <<>>)
        \o [i \in 1..Len(msgs) |-> HumanRow(msgs[i], dw, fw, tw)]
        \o << <<>> >>

\* msgs_human raises ValueError: max() of an empty list.
msgs_human_raises(msgs) == msgs = <<>>

\* msgs_human(messages, header) for non-empty messages.
msgs_human(msgs, header) == Join(HumanLines(msgs, header), <<"\n">>)

\* A field as csv.QUOTE_ALL writes it: quoted, embedded quotes doubled.
CsvQuote(f) ==
    <<"\"">>
    \o Concat([i \in 1..Len(f) |-> IF f[i] = "\"" THEN <<"\"", "\"">> ELSE <<f[i]>>])
    \o <<"\"">>

\* One row of the csv writer (dialect excel).
CsvRow(fields) ==
    Join([i \in 1..Len(fields) |-> CsvQuote(fields[i])], <<",">>) \o <<"\r", "\n">>

\* The rows msgs_csv writes.
CsvLines(msgs, header) ==
    (IF header THEN <<CsvRow(<<S_Date, S_From, S_To, S_Text>>)>> ELSE <<>>)
    \o [i \in 1..Len(msgs) |->
            CsvRow(<<msgs[i].date, msgs[i].from, msgs[i].to, msgs[i].text>>)]

\* The array msgs_json serialises: one object per message, in list order.
\* (The textual serialisation is the json library's.)
JsonObjects(msgs) == msgs

\* fmt_msgs(messages, header) of output(), record by record.
RenderLines(fmt, msgs, header) ==
    CASE fmt = "human" -> HumanLines(msgs, header)
      [] fmt = "csv" -> CsvLines(msgs, header)
      [] fmt = "json" -> JsonObjects(msgs)

(***************************************************************************)
(* main(): one action per statement group of the try block, and the        *)
(* finally clause.                                                         *)
(***************************************************************************)
Formats == {"human", "csv", "json"}

\* The operations one successful query_group_ids call performs.
LookupOps == <<"connect", "execute", "close">>

\* The operations of a successful copy_sms_db, after the store is located.
CopyOps == <<"locate", "open_orig", "mktemp", "copy">>

\* The operations of n successive successful lookups.
LookupLog(n) == Concat([i \in 1..n |-> LookupOps])

\* main, lines 458-470: parse, validate; a usage error prints the help and
\* leaves through sys.exit(2).
Validate ==
    /\ pc = "start"
    /\ IF validate_raises(args_aliases, args_numbers)
       THEN /\ pc' = "finally"
            /\ exit_status' = "2"
            /\ log' = Append(log, "usage")
       ELSE /\ pc' = "validated"
            /\ UNCHANGED <<exit_status, log>>
    /\ UNCHANGED <<fnVars, argVars, storeVars, resVars,
                   aliases, query, rows, idx, messages, out>>

\* main, lines 472-474: locate the store and copy it (copy_sms_db).  The
\* temporary file is created with delete=False; COPY_DB is assigned only
\* when copy_sms_db returns.
CopyDb ==
    /\ pc = "validated"
    /\ \E outcome \in {"ok", "tmpfail", "copyfail"} :
        IF orig = "missing"
        THEN /\ log' = log \o <<"locate", "open_orig">>
             /\ exit_status' = "1"
             /\ pc' = "finally"
             /\ UNCHANGED resVars
        ELSE CASE outcome = "tmpfail" ->
                    /\ log' = log \o <<"locate", "open_orig", "mktemp">>
                    /\ exit_status' = "1"
                    /\ pc' = "finally"
                    /\ UNCHANGED resVars
               [] outcome = "copyfail" ->
                    /\ log' = log \o CopyOps
                    /\ tmpfiles' = tmpfiles + 1
                    /\ exit_status' = "1"
                    /\ pc' = "finally"
                    /\ UNCHANGED <<COPY_DB, conns>>
               [] outcome = "ok" ->
                    /\ log' = log \o CopyOps
                    /\ tmpfiles' = tmpfiles + 1
                    /\ COPY_DB' = "tmp"
                    /\ pc' = "copied"
                    /\ UNCHANGED <<conns, exit_status>>
    /\ UNCHANGED <<fnVars, argVars, storeVars,
                   aliases, query, rows, idx, messages, out>>

\* main, line 476: aliases = alias_map(args.aliases).  On a copy that is
\* not a database the first execute raises and conn.close() is not reached.
AliasMap ==
    /\ pc = "copied"
    /\ IF args_aliases # <<>> /\ orig = "garbage"
       THEN /\ conns' = conns + 1
            /\ log' = log \o <<"connect", "execute">>
            /\ exit_status' = "exception"
            /\ pc' = "finally"
            /\ UNCHANGED aliases
       ELSE /\ aliases' = alias_map(group_member, args_aliases)
            /\ log' = log \o LookupLog(Len(args_aliases))
            /\ pc' = "aliased"
            /\ UNCHANGED <<conns, exit_status>>
    /\ UNCHANGED <<fnVars, argVars, storeVars, COPY_DB, tmpfiles,
                   query, rows, idx, messages, out>>

\* main, line 477: query, params = build_msg_query(args.numbers).
BuildQuery ==
    /\ pc = "aliased"
    /\ IF args_numbers # <<>> /\ orig = "garbage"
       THEN /\ conns' = conns + 1
            /\ log' = log \o <<"connect", "execute">>
            /\ exit_status' = "exception"
            /\ pc' = "finally"
            /\ UNCHANGED query
       ELSE /\ query' = build_msg_query(group_member, args_numbers)
            /\ log' = log \o LookupLog(Len(args_numbers))
            /\ pc' = "planned"
            /\ UNCHANGED <<conns, exit_status>>
    /\ UNCHANGED <<fnVars, argVars, storeVars, COPY_DB, tmpfiles,
                   aliases, rows, idx, messages, out>>

\* main, lines 479-484: connect and execute the message query.
ExecQuery ==
    /\ pc = "planned"
    /\ conns' = conns + 1
    /\ log' = log \o <<"connect", "execute">>
    /\ IF orig = "garbage"
       THEN /\ exit_status' = "exception"
            /\ pc' = "finally"
            /\ UNCHANGED <<rows, idx>>
       ELSE /\ rows' = ExecuteQuery(query, message)
            /\ idx' = 0
            /\ pc' = "rows"
            /\ UNCHANGED exit_status
    /\ UNCHANGED <<fnVars, argVars, storeVars, COPY_DB, tmpfiles,
                   aliases, query, messages, out>>

\* main, lines 487-496: one iteration of `for row in cur`.
ProcessRow ==
    /\ pc = "rows"
    /\ idx < Len(rows)
    /\ LET row == rows[idx + 1]
       IN  IF skip_row(row)
           THEN /\ idx' = idx + 1
                /\ UNCHANGED <<messages, exit_status, pc>>
           ELSE IF convert_date_raises(row.date)
           THEN /\ exit_status' = "exception"
                /\ pc' = "finally"
                /\ UNCHANGED <<messages, idx>>
           ELSE /\ messages' = Append(messages, MakeMsg(row, S_Me, aliases))
                /\ idx' = idx + 1
                /\ UNCHANGED <<exit_status, pc>>
    /\ UNCHANGED <<fnVars, argVars, storeVars, resVars,
                   aliases, query, rows, out, log>>

\* main, lines 498-499: conn.close() and output(...).  The destination may
\* not be writable; msgs_human raises on an empty list.
Output ==
    /\ pc = "rows"
    /\ idx = Len(rows)
    /\ conns' = conns - 1
    /\ pc' = "finally"
    /\ \E writable \in BOOLEAN :
        IF ~writable
        THEN /\ exit_status' = "exception"
             /\ log' = log \o <<"close">>
             /\ UNCHANGED out
        ELSE IF args_format = "human" /\ msgs_human_raises(messages)
        THEN /\ exit_status' = "exception"
             /\ log' = log \o <<"close", "open_out">>
             /\ UNCHANGED out
        ELSE /\ out' = RenderLines(args_format, messages, args_header)
             /\ log' = log \o <<"close", "open_out", "write">>
             /\ exit_status' = "0"
    /\ UNCHANGED <<fnVars, argVars, storeVars, COPY_DB, tmpfiles,
                   aliases, query, rows, idx, messages>>

\* main, lines 500-503: the finally clause.
Finally ==
    /\ pc = "finally"
    /\ IF COPY_DB # "None"
       THEN /\ tmpfiles' = tmpfiles - 1
            /\ log' = Append(log, "remove")
       ELSE UNCHANGED <<tmpfiles, log>>
    /\ pc' = "done"
    /\ UNCHANGED <<fnVars, argVars, storeVars, COPY_DB, conns,
                   aliases, query, rows, idx, messages, out, exit_status>>

Next ==
    \/ Validate
    \/ CopyDb
    \/ AliasMap
    \/ BuildQuery
    \/ ExecQuery
    \/ ProcessRow
    \/ Output
    \/ Finally

(***************************************************************************)
(* Inputs.                                                                 *)
(***************************************************************************)
\* Phone strings.
P_Full11 == <<"1", "5", "5", "5", "5", "5", "5", "1", "2", "1", "2">>
P_Paren == <<"(", "5", "5", "5", ")", " ", "5", "5", "5", "-", "1", "2", "1", "2">>
P_Plain10 == <<"5", "5", "5", "5", "5", "5", "1", "2", "1", "2">>
P_Plus11 == <<"+", "1", "5", "5", "5", "5", "5", "5", "1", "2", "1", "2">>
P_Local7 == <<"5", "5", "5", "-", "1", "2", "1", "2">>
P_Other10 == <<"5", "5", "5", "5", "5", "5", "1", "2", "1", "3">>
P_Intl == <<"+", "4", "4", "5", "5", "5", "5", "5", "5", "1", "2", "1", "3">>
P_Unknown == <<"9", "9", "9", "9", "9">>
P_Short == <<"1", "2", "-", "3", "4">>

\* Names and texts.
N_Al == <<"A", "l">>
N_Bo == <<"B", "o", "b", "2", "5">>
N_A == <<"A">>
X_Hi == <<"h", "i">>
X_Yo == <<"y", "o", " ", "|", " ", "y", "o">>
X_TwoLines == <<"a", "\n", "b">>

\* Values of the variables a specification does not use.
NoQuery == [filtered |-> FALSE, params |-> <<>>]

IdleFn == phone = <<>> /\ phone2 = <<>> /\ result = <<>> /\ result2 = <<>>

IdleArgs ==
    /\ args_aliases = <<>>
    /\ args_numbers = <<>>
    /\ args_format = "human"
    /\ args_header = TRUE

IdleStore == orig = "db" /\ group_member = <<>> /\ message = {}

IdleRes == COPY_DB = "None" /\ tmpfiles = 0 /\ conns = 0

IdleRun ==
    /\ aliases = <<>>
    /\ query = NoQuery
    /\ rows = <<>>
    /\ idx = 0
    /\ messages = <<>>
    /\ out = <<>>
    /\ log = <<>>
    /\ exit_status = "running"

\* The state main is in when copy_sms_db has returned.
AfterCopy ==
    /\ COPY_DB = "tmp"
    /\ tmpfiles = 1
    /\ conns = 0
    /\ exit_status = "running"

\* Tables of at most n rows, with rowid 1..k, whose other columns are drawn
\* from Kinds.
Tables(Kinds, n) ==
    UNION {{{[rowid |-> i, date |-> f[i].date, address |-> f[i].address,
              text |-> f[i].text, flags |-> f[i].flags,
              group_id |-> f[i].group_id] : i \in 1..k} :
                f \in [1..k -> Kinds]} : k \in 0..n}

(***************************************************************************)
(* Specification Spec: a whole run of main().                              *)
(***************************************************************************)
RunAliasPool ==
    { P_Plain10 \o <<"=">> \o N_Al,            \* resolves
      P_Short \o <<"=">> \o N_Al,              \* fewer than 5 digits
      <<"=">> \o N_Al,                         \* no number part
      P_Plain10 \o <<"=">>,                    \* no name part
      P_Plain10 \o <<"=">> \o N_Al \o <<"=">> \o N_Bo,  \* two '='
      P_Plain10 }                              \* no '='

RunNumberPool == {P_Paren, P_Unknown, P_Short}

RunGroupMember == <<[address |-> P_Plus11, group_id |-> 1]>>

RunRowKinds ==
    { [date |-> "12000000", address |-> P_Plain10, text |-> X_Hi,
       flags |-> 2, group_id |-> 1],
      [date |-> "20000000", address |-> P_Other10, text |-> X_Yo,
       flags |-> 1, group_id |-> 2],
      [date |-> "NULL", address |-> P_Other10, text |-> X_Yo,
       flags |-> 3, group_id |-> 2] }

Init ==
    /\ pc = "start"
    /\ IdleFn
    /\ args_aliases \in SeqsUpTo(RunAliasPool, MaxAliases)
    /\ args_numbers \in SeqsUpTo(RunNumberPool, MaxRunNumbers)
    /\ args_format \in Formats
    /\ args_header \in BOOLEAN
    /\ orig \in {"missing", "garbage", "db"}
    /\ group_member = RunGroupMember
    /\ message \in Tables(RunRowKinds, MaxRunRows)
    /\ IdleRes
    /\ IdleRun

Spec == Init /\ [][Next]_vars

(***************************************************************************)
(* Specification SpecFormat: format_phone on every phone string over       *)
(* PhoneChars of length at most MaxPhoneLen.                               *)
(***************************************************************************)
PhoneChars == {"1", "5", "-"}

InitFormat ==
    /\ pc = "format"
    /\ \E a \in SeqsUpTo(PhoneChars, MaxPhoneLen \div 2),
          b \in SeqsUpTo(PhoneChars, MaxPhoneLen - (MaxPhoneLen \div 2)) :
            /\ Len(a) < MaxPhoneLen \div 2 => b = <<>>
            /\ phone = a \o b
    /\ phone2 = <<>> /\ result = <<>> /\ result2 = <<>>
    /\ IdleArgs /\ IdleStore /\ IdleRes /\ IdleRun

\* format_phone(phone), as convert_address calls it.
FormatPhone ==
    /\ pc = "format"
    /\ result' = format_phone(phone)
    /\ pc' = "formatted"
    /\ UNCHANGED <<phone, phone2, result2, argVars, storeVars, resVars, runVars>>

NextFormat == FormatPhone

SpecFormat == InitFormat /\ [][NextFormat]_vars

(***************************************************************************)
(* Specification SpecGroups: query_group_ids for two phone strings on the  *)
(* same group_member table.                                                *)
(***************************************************************************)
GroupPhonePool == {P_Full11, P_Paren, P_Plain10, P_Local7, P_Other10, P_Unknown}

GroupAddrPool == {P_Plus11, P_Paren, P_Local7, P_Other10}

MemberRows(Addrs) == [address : Addrs, group_id : 1..MaxGid]

InitGroups ==
    /\ pc = "resolve"
    /\ phone \in GroupPhonePool
    /\ phone2 \in GroupPhonePool
    /\ result = <<>> /\ result2 = <<>>
    /\ IdleArgs
    /\ orig = "db"
    /\ group_member \in SeqsUpTo(MemberRows(GroupAddrPool), MaxMembers)
    /\ message = {}
    /\ AfterCopy
    /\ aliases = <<>> /\ query = NoQuery /\ rows = <<>> /\ idx = 0
    /\ messages = <<>> /\ out = <<>> /\ log = CopyOps

\* query_group_ids(phone), then query_group_ids(phone2): each call connects,
\* executes and closes.
ResolveGroups ==
    /\ pc = "resolve"
    /\ result' = query_group_ids(group_member, phone)
    /\ result2' = query_group_ids(group_member, phone2)
    /\ log' = log \o LookupLog(2)
    /\ pc' = "resolved"
    /\ UNCHANGED <<phone, phone2, argVars, storeVars, resVars,
                   aliases, query, rows, idx, messages, out, exit_status>>

NextGroups == ResolveGroups

SpecGroups == InitGroups /\ [][NextGroups]_vars

(***************************************************************************)
(* Specification SpecAlias: alias_map, from the state after the copy.      *)
(***************************************************************************)
AliasPool ==
    { P_Plain10 \o <<"=">> \o N_Al,
      P_Local7 \o <<"=">> \o N_Bo,
      P_Unknown \o <<"=">> \o N_A }

InitAlias ==
    /\ pc = "copied"
    /\ IdleFn
    /\ args_aliases \in SeqsUpTo(AliasPool, MaxAliases)
    /\ args_numbers = <<>>
    /\ args_format = "human"
    /\ args_header = TRUE
    /\ orig = "db"
    /\ group_member \in SeqsUpTo(MemberRows(GroupAddrPool), MaxMembers)
    /\ message = {}
    /\ AfterCopy
    /\ aliases = <<>> /\ query = NoQuery /\ rows = <<>> /\ idx = 0
    /\ messages = <<>> /\ out = <<>>
    /\ log = CopyOps

NextAlias == AliasMap

SpecAlias == InitAlias /\ [][NextAlias]_vars

(***************************************************************************)
(* Specification SpecQuery: build_msg_query and the execution of its       *)
(* query, from the state after alias_map.                                  *)
(***************************************************************************)
QueryNumberPool == {P_Paren, P_Local7, P_Unknown}

\* Membership rows: one number stored in two forms and in two groups, and
\* another number.
QueryMemberRows ==
    { [address |-> P_Plus11, group_id |-> 1],
      [address |-> P_Paren, group_id |-> 2],
      [address |-> P_Other10, group_id |-> 2] }

\* Message rows that differ in their group only.
QueryRowKinds ==
    {[date |-> "12000000", address |-> P_Plain10, text |-> X_Hi,
      flags |-> 2, group_id |-> g] : g \in 1..MaxGid}

InitQuery ==
    /\ pc = "aliased"
    /\ IdleFn
    /\ args_aliases = <<>>
    /\ args_numbers \in SeqsUpTo(QueryNumberPool, MaxNumbers)
    /\ args_format = "human"
    /\ args_header = TRUE
    /\ orig = "db"
    /\ group_member \in SeqsUpTo(QueryMemberRows, MaxMembers)
    /\ message \in Tables(QueryRowKinds, MaxQueryRows)
    /\ AfterCopy
    /\ aliases = <<>> /\ query = NoQuery /\ rows = <<>> /\ idx = 0
    /\ messages = <<>> /\ out = <<>>
    /\ log = CopyOps

NextQuery ==
    \/ BuildQuery
    \/ ExecQuery

SpecQuery == InitQuery /\ [][NextQuery]_vars

(***************************************************************************)
(* Specification SpecClassify: the row loop and the output, from the state *)
(* after the message query was executed.                                   *)
(***************************************************************************)
ClassifyRowKinds ==
    { [date |-> "12000000", address |-> P_Plain10, text |-> X_Hi,
       flags |-> 2, group_id |-> 1],
      [date |-> "20000000", address |-> P_Intl, text |-> X_Yo,
       flags |-> 3, group_id |-> 2],
      [date |-> "12000000", address |-> P_Other10, text |-> X_TwoLines,
       flags |-> 1, group_id |-> 2],
      [date |-> "12000000", address |-> <<>>, text |-> X_Hi,
       flags |-> 2, group_id |-> 1],
      [date |-> "20000000", address |-> P_Plain10, text |-> <<>>,
       flags |-> 3, group_id |-> 1],
      [date |-> "NULL", address |-> P_Plain10, text |-> X_TwoLines,
       flags |-> 3, group_id |-> 1] }

\* Membership of the two numbers the rows above are addressed to.
ClassifyGroupMember ==
    << [address |-> P_Plus11, group_id |-> 1],
       [address |-> P_Intl, group_id |-> 2] >>

\* No alias, an alias for group 1, aliases for groups 1 and 2.
ClassifyAliasLists ==
    { <<>>,
      <<P_Plain10 \o <<"=">> \o N_Al>>,
      <<P_Paren \o <<"=">> \o N_A, P_Intl \o <<"=">> \o N_Bo>> }

\* The state main is in when the message query has been executed, for the
\* arguments and the store chosen.
InitClassify ==
    /\ pc = "rows"
    /\ IdleFn
    /\ args_aliases \in ClassifyAliasLists
    /\ args_numbers = <<>>
    /\ args_format \in Formats
    /\ args_header \in BOOLEAN
    /\ orig = "db"
    /\ group_member = ClassifyGroupMember
    /\ message \in Tables(ClassifyRowKinds, MaxRows)
    /\ COPY_DB = "tmp" /\ tmpfiles = 1 /\ conns = 1
    /\ aliases = alias_map(group_member, args_aliases)
    /\ query = build_msg_query(group_member, args_numbers)
    /\ rows = ExecuteQuery(query, message)
    /\ idx = 0
    /\ messages = <<>>
    /\ out = <<>>
    /\ log = CopyOps \o LookupLog(Len(args_aliases)) \o <<"connect", "execute">>
    /\ exit_status = "running"

NextClassify ==
    \/ ProcessRow
    \/ Output
    \/ Finally

SpecClassify == InitClassify /\ [][NextClassify]_vars

(***************************************************************************)
(* Specification SpecHuman: msgs_human on message lists as main builds     *)
(* them.                                                                   *)
(***************************************************************************)
HumanMsgs ==
    { [date |-> d, from |-> IF dir = 2 THEN o ELSE S_Me,
       to |-> IF dir = 2 THEN S_Me ELSE o, text |-> t] :
        d \in {S_May, S_August}, o \in {N_A, N_Bo, P_Paren},
        dir \in {2, 3}, t \in {X_Hi, X_TwoLines} }

InitHuman ==
    /\ pc = "render"
    /\ IdleFn
    /\ args_aliases = <<>>
    /\ args_numbers = <<>>
    /\ args_format = "human"
    /\ args_header \in BOOLEAN
    /\ IdleStore /\ IdleRes
    /\ aliases = <<>> /\ query = NoQuery /\ rows = <<>> /\ idx = 0
    /\ messages \in SeqsUpTo(HumanMsgs, MaxMsgs)
    /\ out = <<>> /\ log = <<>> /\ exit_status = "running"

\* fmt_msgs(messages, header) with fmt_msgs = msgs_human.
RenderHuman ==
    /\ pc = "render"
    /\ IF msgs_human_raises(messages)
       THEN /\ exit_status' = "exception"
            /\ UNCHANGED <<result, out>>
       ELSE /\ result' = msgs_human(messages, args_header)
            /\ out' = HumanLines(messages, args_header)
            /\ UNCHANGED exit_status
    /\ pc' = "rendered"
    /\ UNCHANGED <<phone, phone2, result2, argVars, storeVars, resVars,
                   aliases, query, rows, idx, messages, log>>

NextHuman == RenderHuman

SpecHuman == InitHuman /\ [][NextHuman]_vars

(***************************************************************************)
(* Notions the properties are stated with.                                 *)
(***************************************************************************)
\* Number of decimal digits of a string.
DigitCount(s) == Cardinality({i \in DOMAIN s : s[i] \in Digits})

\* The last 10 digits of a phone string, or all its digits when fewer.
Suffix10(p) ==
    LET d == strip(p)
    IN  IF Len(d) <= 10 THEN d ELSE SubSeq(d, Len(d) - 9, Len(d))

\* The stripped address is some prefix followed by the suffix.
AddressMatches(address, p) ==
    LET d == strip(address)
        suf == Suffix10(p)
    IN  \E pre \in 0..Len(d) : SubSeq(d, pre + 1, Len(d)) = suf

\* The distinct groups of the membership rows matching p.
GroupsOf(p) ==
    {group_member[i].group_id :
        i \in {j \in DOMAIN group_member :
                  AddressMatches(group_member[j].address, p)}}

\* A row is eligible: flag 2 or 3, address and text present.
Eligible(r) == r.flags \in {2, 3} /\ r.address # <<>> /\ r.text # <<>>

\* The eligible rows among those the loop has consumed, in order.
ConsumedEligible == SelectSeq(SubSeq(rows, 1, idx), Eligible)

\* An alias is a non-empty number, exactly one '=', a non-empty name.
WellFormedAlias(a) ==
    /\ Cardinality({i \in DOMAIN a : a[i] = "="}) = 1
    /\ a[1] # "="
    /\ a[Len(a)] # "="

\* The part of a well-formed alias before its '='.
NumberPart(a) == SubSeq(a, 1, (CHOOSE i \in DOMAIN a : a[i] = "=") - 1)

BadAlias(a) == ~WellFormedAlias(a) \/ DigitCount(NumberPart(a)) < 5

BadArgs ==
    \/ \E i \in DOMAIN args_aliases : BadAlias(args_aliases[i])
    \/ \E i \in DOMAIN args_numbers : DigitCount(args_numbers[i]) < 5

(***************************************************************************)
(* C1.                                                                     *)
(***************************************************************************)
RequestedUnion == UNION {GroupsOf(args_numbers[i]) : i \in DOMAIN args_numbers}

ExpectedSelection ==
    LET union == RequestedUnion
    IN  IF union # {} THEN {r \in message : r.group_id \in union} ELSE message

\* C1: once the message query has been executed, the cursor holds exactly
\* the rows of the groups resolved for the requested numbers, or every row
\* when that union is empty, each once and in ascending rowid order.
C1_Selection ==
    pc = "rows" =>
        LET expected == ExpectedSelection
        IN  /\ Range(rows) = expected
            /\ Len(rows) = Cardinality(expected)
            /\ \A i, j \in DOMAIN rows : i < j => rows[i].rowid < rows[j].rowid

\* Every requested number is unresolved, the store has rows of two groups,
\* and the whole table was selected.
C1_Witness ==
    /\ pc = "rows"
    /\ args_numbers # <<>>
    /\ RequestedUnion = {}
    /\ Cardinality({r.group_id : r \in message}) = 2
    /\ Len(rows) = Cardinality(message)

(***************************************************************************)
(* C2.                                                                     *)
(***************************************************************************)
\* C2: alias_map returns, and its keys are exactly the groups resolved for
\* the number of some pair, each mapped to the name of a pair whose number
\* resolves to that group.
C2_AliasKeys ==
    /\ pc \in {"copied", "aliased"}
    /\ exit_status = "running"
    /\ pc = "aliased" =>
        /\ DOMAIN aliases =
              UNION {GroupsOf(NumberPart(args_aliases[i])) : i \in DOMAIN args_aliases}
        /\ \A g \in DOMAIN aliases :
              \E i \in DOMAIN args_aliases :
                  /\ g \in GroupsOf(NumberPart(args_aliases[i]))
                  /\ aliases[g] = AliasName(args_aliases[i])

\* One pair resolved to two groups, another pair to none.
C2_Witness ==
    /\ pc = "aliased"
    /\ \E i \in DOMAIN args_aliases :
          Cardinality(GroupsOf(NumberPart(args_aliases[i]))) = 2
    /\ \E i \in DOMAIN args_aliases :
          GroupsOf(NumberPart(args_aliases[i])) = {}
    /\ Cardinality(DOMAIN aliases) = 2

(***************************************************************************)
(* C3.                                                                     *)
(***************************************************************************)
\* C3: after validation the run has the usage exit status exactly when some
\* alias is malformed or some alias or filter number has fewer than 5
\* digits, and in that case no storage or output operation was performed.
C3_Usage ==
    pc # "start" =>
        /\ (exit_status = "2") <=> BadArgs
        /\ exit_status = "2" =>
              /\ Range(log) \subseteq {"usage"}
              /\ COPY_DB = "None"
              /\ tmpfiles = 0
              /\ conns = 0
              /\ out = <<>>

\* The run ended with status 2 on a second alias, the first being valid.
C3_Witness ==
    /\ pc = "done"
    /\ exit_status = "2"
    /\ Len(args_aliases) = 2
    /\ ~BadAlias(args_aliases[1])
    /\ \A i \in DOMAIN args_numbers : DigitCount(args_numbers[i]) >= 5

(***************************************************************************)
(* C4.                                                                     *)
(***************************************************************************)
\* The text an output record carries, seen from its end.
CarriesText(fmt, rec, text) ==
    CASE fmt = "human" -> EndsWith(rec, S_Sep \o text)
      [] fmt = "csv" -> EndsWith(rec, <<",">> \o CsvQuote(text) \o <<"\r", "\n">>)
      [] fmt = "json" -> rec.text = text

\* Number of records before the first message: the header row, if any.
Preamble == IF args_header /\ args_format # "json" THEN 1 ELSE 0

\* Number of records after the last message: the blank line of human.
Postamble == IF args_format = "human" THEN 1 ELSE 0

\* C4: the message list holds one entry for each eligible row consumed and
\* none for another row, in the order of retrieval, which is ascending in
\* rowid; what is written holds the entries in that same order.
C4_Entries ==
    /\ \A i, j \in DOMAIN rows : i < j => rows[i].rowid < rows[j].rowid
    /\ Len(messages) = Len(ConsumedEligible)
    /\ \A i \in DOMAIN messages : messages[i].text = ConsumedEligible[i].text
    /\ exit_status = "0" =>
          /\ idx = Len(rows)
          /\ Len(out) = Preamble + Len(messages) + Postamble
          /\ \A i \in DOMAIN messages :
                CarriesText(args_format, out[Preamble + i], ConsumedEligible[i].text)

\* Three rows were retrieved, the second was skipped for its flag 1, and
\* the two others were written in order.
C4_Witness ==
    /\ pc = "done"
    /\ exit_status = "0"
    /\ Len(rows) = 3
    /\ rows[2].flags = 1
    /\ Len(messages) = 2
    /\ messages[1].text = X_Yo
    /\ messages[2].text = X_Hi

(***************************************************************************)
(* C5.                                                                     *)
(***************************************************************************)
\* The counterpart of a row: its group's alias, else its formatted address.
Counterpart(row) ==
    IF row.group_id \in DOMAIN aliases THEN aliases[row.group_id]
    ELSE format_phone(row.address)

\* C5: every entry of the message list has from = counterpart and to = the
\* identity name for an incoming row, from = the identity name and to =
\* counterpart for an outgoing row, and never an unbound name.
C5_Direction ==
    \A i \in DOMAIN messages :
        LET row == ConsumedEligible[i]
            m == messages[i]
        IN  /\ row.flags = 2 => m.from = Counterpart(row) /\ m.to = S_Me
            /\ row.flags = 3 => m.from = S_Me /\ m.to = Counterpart(row)
            /\ m.from # Unbound
            /\ m.to # Unbound

\* An incoming row of an aliased group and an outgoing row of a group
\* without alias were both converted.
C5_Witness ==
    /\ Len(messages) = 2
    /\ DOMAIN aliases = {1}
    /\ messages[1].from = N_Al
    /\ messages[1].to = S_Me
    /\ messages[2].from = S_Me
    /\ messages[2].to = P_Intl

(***************************************************************************)
(* C6.                                                                     *)
(***************************************************************************)
\* '(AAA) BBB-CCCC' from the last 10 digits of d.
Display10(d) ==
    LET t == SubSeq(d, Len(d) - 9, Len(d))
    IN  <<"(", t[1], t[2], t[3], ")", " ", t[4], t[5], t[6], "-",
          t[7], t[8], t[9], t[10]>>

\* The phone has exactly 10 digits, or 11 with a leading 1.
UsShaped(d) == Len(d) = 10 \/ (Len(d) = 11 /\ d[1] = "1")

\* C6 as stated: fewer than 10 digits give the stripped digits, 10 digits or
\* 11 with a leading 1 give '(AAA) BBB-CCCC', and every other case gives the
\* stripped digits.
C6_StrippedOtherwise ==
    pc = "formatted" =>
        LET d == strip(phone)
        IN  result = IF Len(d) < 10 THEN d
                     ELSE IF UsShaped(d) THEN Display10(d)
                     ELSE d

\* C6 amended: as above, but every other case gives the string as it was
\* passed in, punctuation included; and for 11 digits with a leading 1 the
\* result is that of the string without its first character.
C6_UnchangedOtherwise ==
    pc = "formatted" =>
        LET d == strip(phone)
        IN  /\ result = IF Len(d) < 10 THEN d
                        ELSE IF UsShaped(d) THEN Display10(d)
                        ELSE phone
            /\ (Len(d) = 11 /\ d[1] = "1") => result = format_phone(Tail(phone))

\* A punctuated string of 11 digits, the first not a 1, was formatted and
\* came back unchanged.
C6_Witness ==
    /\ pc = "formatted"
    /\ Len(strip(phone)) = 11
    /\ strip(phone)[1] # "1"
    /\ phone # strip(phone)
    /\ result = phone

(***************************************************************************)
(* C7.                                                                     *)
(***************************************************************************)
\* C7: two phone strings with the same last-10-digit suffix resolve to the
\* same set of groups; the set resolved is that of the distinct groups of
\* the membership rows whose stripped address ends with the suffix, and a
\* lookup without match returns nothing and raises nothing.
C7_SuffixInvariant ==
    pc = "resolved" =>
        /\ Suffix10(phone) = Suffix10(phone2) => Range(result) = Range(result2)
        /\ Range(result) = GroupsOf(phone)
        /\ Range(result2) = GroupsOf(phone2)
        /\ GroupsOf(phone) = {} => result = <<>>
        /\ exit_status = "running"

\* '15555551212' and '(555) 555-1212' resolved to the same non-empty set on
\* a table that stores the number as '+15555551212'.
C7_Witness ==
    /\ pc = "resolved"
    /\ phone = P_Full11
    /\ phone2 = P_Paren
    /\ \E i \in DOMAIN group_member : group_member[i].address = P_Plus11
    /\ result # <<>>
    /\ Range(result) = Range(result2)

(***************************************************************************)
(* C8.                                                                     *)
(***************************************************************************)
\* The larger of the widest value of a column and its header's width.
ColumnWidth(lens, head) ==
    CHOOSE w \in lens \cup {Len(head)} : \A x \in lens \cup {Len(head)} : x <= w

DateW == ColumnWidth({Len(messages[i].date) : i \in DOMAIN messages}, S_Date)
FromW == ColumnWidth({Len(messages[i].from) : i \in DOMAIN messages}, S_From)
ToW == ColumnWidth({Len(messages[i].to) : i \in DOMAIN messages}, S_To)

Blank(s) == \A i \in DOMAIN s : s[i] = " "

\* s is v, preceded by blanks only.
RightJustified(s, v) ==
    /\ Len(s) >= Len(v)
    /\ SubSeq(s, Len(s) - Len(v) + 1, Len(s)) = v
    /\ Blank(SubSeq(s, 1, Len(s) - Len(v)))

\* s is v, followed by blanks only.
LeftJustified(s, v) ==
    /\ Len(s) >= Len(v)
    /\ SubSeq(s, 1, Len(v)) = v
    /\ Blank(SubSeq(s, Len(v) + 1, Len(s)))

\* The line has its three separators right after the three columns.
Aligned(line) ==
    /\ SubSeq(line, DateW + 1, DateW + 3) = S_Sep
    /\ SubSeq(line, DateW + FromW + 4, DateW + FromW + 6) = S_Sep
    /\ SubSeq(line, DateW + FromW + ToW + 7, DateW + FromW + ToW + 9) = S_Sep

DateField(line) == SubSeq(line, 1, DateW)
FromField(line) == SubSeq(line, DateW + 4, DateW + FromW + 3)
ToField(line) == SubSeq(line, DateW + FromW + 7, DateW + FromW + ToW + 6)
TextField(line) == SubSeq(line, DateW + FromW + ToW + 10, Len(line))

HeaderRows == IF args_header THEN 1 ELSE 0

\* C8: for a non-empty message list, the header row (when asked for) and
\* every message row have their separators at the positions given by the
\* column widths, each the larger of the widest value and the header's
\* width; Date is left-justified and From and To are right-justified in the
\* message rows; the output ends with an empty line.
C8_Alignment ==
    (pc = "rendered" /\ messages # <<>>) =>
        /\ Len(out) = HeaderRows + Len(messages) + 1
        /\ \A k \in 1..(Len(out) - 1) : Aligned(out[k])
        /\ args_header =>
              /\ LeftJustified(DateField(out[1]), S_Date)
              /\ LeftJustified(FromField(out[1]), S_From)
              /\ LeftJustified(ToField(out[1]), S_To)
              /\ TextField(out[1]) = S_Text
        /\ \A i \in DOMAIN messages :
              LET line == out[HeaderRows + i]
              IN  /\ LeftJustified(DateField(line), messages[i].date)
                  /\ RightJustified(FromField(line), messages[i].from)
                  /\ RightJustified(ToField(line), messages[i].to)
                  /\ TextField(line) = messages[i].text
        /\ out[Len(out)] = <<>>
        /\ result = Join(out, <<"\n">>)
        /\ result[Len(result)] = "\n"
        /\ exit_status = "running"

\* A header and two rows were rendered; the From values are one narrower
\* and one wider than 'From', the dates one narrower and one wider than
\* 'Date'.
C8_Witness ==
    /\ pc = "rendered"
    /\ args_header
    /\ Len(messages) = 2
    /\ Len(messages[1].from) < Len(S_From)
    /\ Len(messages[2].from) > Len(S_From)
    /\ Len(messages[1].date) > Len(S_Date)
    /\ Len(messages[2].date) < Len(S_Date)
    /\ Len(out) = 4

(***************************************************************************)
(* C9.                                                                     *)
(***************************************************************************)
\* The output of the human format for no message at all.
EmptyHumanOutput ==
    (IF args_header
     THEN <<S_Date \o S_Sep \o S_From \o S_Sep \o S_To \o S_Sep \o S_Text>>
     ELSE <<>>) \o << <<>> >>

\* C9: a run that reaches its output with an empty message list and a
\* writable destination completes normally, and in the human format writes
\* the header line (when asked for) and the blank line.
C9_EmptyCompletes ==
    (pc = "done" /\ "open_out" \in Range(log) /\ messages = <<>>) =>
        /\ exit_status = "0"
        /\ args_format = "human" => out = EmptyHumanOutput

(***************************************************************************)
(* C10.                                                                    *)
(***************************************************************************)
\* C10: when a run that passed validation has ended, every connection it
\* opened is closed and every temporary copy it created is removed.
C10_Released ==
    (pc = "done" /\ exit_status # "2") => conns = 0 /\ tmpfiles = 0

====
